---- MODULE Spec2Model ----
(***************************************************************************)
(* Model of feincms3_sites/middleware.py: the current-site context         *)
(* variable, site_middleware, redirect_to_site_middleware and              *)
(* default_language_middleware, run as a chain of middlewares around an    *)
(* inner handler by one or more execution units.                           *)
(***************************************************************************)
EXTENDS Integers, Sequences, FiniteSets, TLC

VARIABLES
    ctx,        \* per execution unit: value of the ContextVar _current_site
    lang,       \* per execution unit: the active language of django.utils.translation
    secureRedirect, \* settings.SECURE_SSL_REDIRECT
    pipe,       \* per unit: the middleware chain the current request runs through
    req,        \* per unit: the request object
    stack,      \* per unit: the middleware calls waiting for get_response
    status,     \* per unit: idle / call / handler / ret / exc
    resp,       \* per unit: the response travelling up the chain
    exc,        \* per unit: the exception travelling up the chain
    hist        \* per unit: what happened so far in the current request

vars == <<ctx, lang, secureRedirect, pipe, req, stack, status, resp, exc, hist>>

----------------------------------------------------------------------------
\* Bounds

NumUnits == 2       \* execution units that run concurrently
MaxNest == 2        \* depth of directly nested set_current_site scopes

Units == 1 .. NumUnits
\* the unit of the single-unit specification
MainUnit == CHOOSE u \in Units : \A v \in Units : u <= v
\* a second unit, for runs that compare two middlewares
OtherUnit == MainUnit + 1

----------------------------------------------------------------------------
\* Values

None == "None"          \* Python's None
MISSING == "MISSING"    \* the ContextVar has no value in this context
Absent == "absent"      \* the attribute or header does not exist
NoExc == "none"

Sites == {"A", "B"}
Hosts == {"a.example.com", "alt.example.com", "b.example.com", "x.example.com"}
Paths == {"/p?q=1", "/"}
Langs == {"de", "en", "fr"}
LANGUAGE_CODE == "en"

\* Site.host
SiteHost(s) == IF s = "A" THEN "a.example.com" ELSE "b.example.com"

\* Site.default_language ("" when the site sets none)
SiteDefaultLanguage(s) == IF s = "A" THEN "de" ELSE ""

\* str(site)
SiteStr(s) == SiteHost(s)

\* Site.objects.for_host(host)
for_host(h) ==
    CASE h = "a.example.com" -> "A"
      [] h = "alt.example.com" -> "A"
      [] h = "b.example.com" -> "B"
      [] OTHER -> None

NoResp == [code |-> 0, location |-> <<>>, vary |-> {}, contentLanguage |-> Absent, body |-> "none"]

NoReq == [host |-> "x.example.com", secure |-> FALSE, path |-> "/", negotiated |-> "en",
          site |-> Absent, LANGUAGE_CODE |-> Absent, urlconf |-> Absent]

NoHist == [ctx0 |-> MISSING, lang0 |-> LANGUAGE_CODE, invoked |-> <<>>, sets |-> 0,
           activated |-> FALSE, handlerResp |-> NoResp, seen |-> Absent,
           handlerLang |-> Absent, warnings |-> 0, followed |-> FALSE]

----------------------------------------------------------------------------
\* The context variable (contextvars.ContextVar, one value per execution unit)

\* a set whose value is lost
CtxSetDropped(c, u, v) == c

\* a set that writes the value into every unit's context (a plain global)
CtxSetShared(c, u, v) == [x \in DOMAIN c |-> v]

\* _current_site.set(site), run by unit u
CtxSet(c, u, v) == [c EXCEPT ![u] = v]

\* a reset that clears the variable instead of restoring the token's value
CtxResetClear(c, u, token) == [c EXCEPT ![u] = MISSING]

\* _current_site.reset(token), run by unit u; the token holds the old value
CtxReset(c, u, token) == [c EXCEPT ![u] = token]

\* current_site(): _current_site.get(None)
current_site(c, u) == IF c[u] = MISSING THEN None ELSE c[u]

----------------------------------------------------------------------------
\* Middleware chains.  A chain lists the middlewares from the outermost to the
\* innermost; the inner handler follows the last one.  "scope" is code that
\* uses `with set_current_site(site):` directly around the next stage.

ScopeChain(k) == [i \in 1 .. k |-> "scope"]

Pipelines ==
    { <<"site">>, <<"site", "redirect">>, <<"site", "lang">>,
      <<"site", "redirect", "lang">>, <<"redirect">>, <<"lang">>,
      <<"site", "scope">>, <<"apps">> }
    \cup { ScopeChain(k) : k \in 1 .. MaxNest }

\* what the inner handler may return
HandlerResponses ==
    { [code |-> 200, location |-> <<>>, vary |-> v, contentLanguage |-> cl, body |-> "page"] :
        v \in { <<>>, <<"Cookie">>, <<"accept-language">>, <<"Cookie", "Accept-Language">> },
        cl \in { Absent, "fr" } }

PlainResponse ==
    [code |-> 200, location |-> <<>>, vary |-> <<>>, contentLanguage |-> Absent, body |-> "page"]

\* a middleware call waiting for its next stage: for a set_current_site scope
\* the site it set and the token of the set; None for the other middlewares
Frame(mw, site, token) == [mw |-> mw, site |-> site, token |-> token]

Depth(u) == Len(stack[u])
Top(u) == stack[u][Len(stack[u])]
Pop(s) == SubSeq(s, 1, Len(s) - 1)

\* the request is over: its response or exception has left the outermost stage
Finished(u) == status[u] \in {"ret", "exc"} /\ stack[u] = <<>>

\* the stage about to be called is middleware mw
Calling(u, mw) ==
    /\ status[u] = "call"
    /\ Depth(u) < Len(pipe[u])
    /\ pipe[u][Depth(u) + 1] = mw

\* a response (st = "ret") or an exception (st = "exc") has reached middleware mw
Leaving(u, mw, st) ==
    /\ status[u] = st
    /\ stack[u] # <<>>
    /\ Top(u).mw = mw

Invoke(h, i) == [h EXCEPT !.invoked[i] = @ + 1]

----------------------------------------------------------------------------
\* Initial state: no site set in any context, the default language active

Init ==
    /\ ctx = [u \in Units |-> MISSING]
    /\ lang = [u \in Units |-> LANGUAGE_CODE]
    /\ secureRedirect \in BOOLEAN
    /\ pipe = [u \in Units |-> <<>>]
    /\ req = [u \in Units |-> NoReq]
    /\ stack = [u \in Units |-> <<>>]
    /\ status = [u \in Units |-> "idle"]
    /\ resp = [u \in Units |-> NoResp]
    /\ exc = [u \in Units |-> NoExc]
    /\ hist = [u \in Units |-> NoHist]

\* Unit u begins a request: new request object, empty call stack; the unit
\* keeps its context and its active language from whatever it ran before.
NewRequest(u, p, h, sec, path, neg, followed) ==
    /\ pipe' = [pipe EXCEPT ![u] = p]
    /\ req' = [req EXCEPT ![u] = [host |-> h, secure |-> sec, path |-> path,
                                  negotiated |-> neg, site |-> Absent,
                                  LANGUAGE_CODE |-> Absent, urlconf |-> Absent]]
    /\ stack' = [stack EXCEPT ![u] = <<>>]
    /\ status' = [status EXCEPT ![u] = "call"]
    /\ resp' = [resp EXCEPT ![u] = NoResp]
    /\ exc' = [exc EXCEPT ![u] = NoExc]
    /\ hist' = [hist EXCEPT ![u] = [ctx0 |-> ctx[u], lang0 |-> lang[u],
                                    invoked |-> [i \in 1 .. Len(p) + 1 |-> 0],
                                    sets |-> 0, activated |-> FALSE,
                                    handlerResp |-> NoResp, seen |-> Absent,
                                    handlerLang |-> Absent, warnings |-> 0,
                                    followed |-> followed]]
    /\ UNCHANGED <<ctx, lang, secureRedirect>>

Start(u, p, h, sec, path, neg) ==
    /\ status[u] = "idle"
    /\ NewRequest(u, p, h, sec, path, neg, FALSE)

\* The server hands a new request to the idle unit u.
StartRequest(u) ==
    \E p \in Pipelines, h \in Hosts, sec \in BOOLEAN, path \in Paths, neg \in {"en", "fr"} :
        Start(u, p, h, sec, path, neg)

\* The client follows the permanent redirect that unit u returned: a request
\* for the same path and query, with host and scheme taken from the Location,
\* runs through the same chain.  One hop is followed.
FollowRedirect(u) ==
    /\ Finished(u)
    /\ status[u] = "ret"
    /\ resp[u].code = 301
    /\ ~hist[u].followed
    /\ NewRequest(u, pipe[u], resp[u].location[3], resp[u].location[1] = "https",
                  resp[u].location[4], req[u].negotiated, TRUE)

\* The response or the exception of a finished request has been handed to the
\* server; the request object is dropped and the unit is free for the next one.
Deliver(u) ==
    /\ Finished(u)
    /\ pipe' = [pipe EXCEPT ![u] = <<>>]
    /\ req' = [req EXCEPT ![u] = NoReq]
    /\ status' = [status EXCEPT ![u] = "idle"]
    /\ resp' = [resp EXCEPT ![u] = NoResp]
    /\ exc' = [exc EXCEPT ![u] = NoExc]
    /\ hist' = [hist EXCEPT ![u] = NoHist]
    /\ UNCHANGED <<ctx, lang, secureRedirect, stack>>

----------------------------------------------------------------------------
\* set_current_site

\* entering `with set_current_site(v):` in middleware mw: the token remembers
\* the old value, then the body (the next stage) runs
ScopeEnter(u, mw, v) ==
    /\ ctx' = CtxSet(ctx, u, v)
    /\ stack' = [stack EXCEPT ![u] = Append(@, Frame(mw, v, ctx[u]))]
    /\ status' = [status EXCEPT ![u] = "call"]
    /\ hist' = [hist EXCEPT ![u] = [Invoke(@, Depth(u) + 1) EXCEPT !.sets = @ + 1]]

\* the body returned: the generator resumes after `yield` and resets the variable
ScopeExit(u) ==
    /\ ctx' = CtxReset(ctx, u, Top(u).token)
    /\ stack' = [stack EXCEPT ![u] = Pop(@)]

\* the body raised: the exception is thrown into the generator at `yield`,
\* which has no try/finally, so the generator ends without running the reset
ScopeRaise(u) ==
    /\ ctx' = ctx
    /\ stack' = [stack EXCEPT ![u] = Pop(@)]

EnterScope(u) ==
    /\ Calling(u, "scope")
    /\ \E s \in Sites : ScopeEnter(u, "scope", s)
    /\ UNCHANGED <<lang, secureRedirect, pipe, req, resp, exc>>

ExitScope(u) ==
    /\ Leaving(u, "scope", "ret")
    /\ ScopeExit(u)
    /\ UNCHANGED <<lang, secureRedirect, pipe, req, status, resp, exc, hist>>

RaiseScope(u) ==
    /\ Leaving(u, "scope", "exc")
    /\ ScopeRaise(u)
    /\ UNCHANGED <<lang, secureRedirect, pipe, req, status, resp, exc, hist>>

----------------------------------------------------------------------------
\* site_middleware

\* a middleware that enters the scope whatever the lookup returned
SiteFoundAlways(site) == TRUE

\* `if request.site is None: raise Http404` is not taken
SiteFound(site) == site # None

EnterSite(u) ==
    /\ Calling(u, "site")
    /\ LET site == for_host(req[u].host) IN
        /\ req' = [req EXCEPT ![u].site = site]
        /\ IF SiteFound(site)
           THEN /\ ScopeEnter(u, "site", site)
                /\ exc' = exc
           ELSE /\ status' = [status EXCEPT ![u] = "exc"]
                /\ exc' = [exc EXCEPT ![u] = "Http404"]
                /\ hist' = [hist EXCEPT ![u] = Invoke(@, Depth(u) + 1)]
                /\ UNCHANGED <<ctx, stack>>
    /\ UNCHANGED <<lang, secureRedirect, pipe, resp>>

ExitSite(u) ==
    /\ Leaving(u, "site", "ret")
    /\ ScopeExit(u)
    /\ UNCHANGED <<lang, secureRedirect, pipe, req, status, resp, exc, hist>>

RaiseSite(u) ==
    /\ Leaving(u, "site", "exc")
    /\ ScopeRaise(u)
    /\ UNCHANGED <<lang, secureRedirect, pipe, req, status, resp, exc, hist>>

----------------------------------------------------------------------------
\* apps_urlconf_for_site and apps_middleware (deprecated)

\* a warning that is not emitted
WarnNone(h) == h

\* warnings.warn(..., Warning, stacklevel=2)
Warn(h) == [h EXCEPT !.warnings = @ + 1]

\* apps_urlconf(apps=...) for the active application pages of the site
UrlconfFor(site) == IF site = "A" THEN "urlconf_A" ELSE "urlconf_B"

\* apps_urlconf_for_site(site): warns, then builds the urlconf of the site
apps_urlconf_for_site(h, site) == [hist |-> Warn(h), urlconf |-> UrlconfFor(site)]

\* a middleware that goes on whatever the lookup returned
AppsSiteFoundAlways(site) == TRUE

\* `if request.site is None: raise Http404` is not taken
AppsSiteFound(site) == site # None

EnterApps(u) ==
    /\ Calling(u, "apps")
    /\ LET site == for_host(req[u].host)
           called == apps_urlconf_for_site(Invoke(hist[u], Depth(u) + 1), site)
       IN IF AppsSiteFound(site)
          THEN /\ req' = [req EXCEPT ![u].site = site, ![u].urlconf = called.urlconf]
               /\ ctx' = CtxSet(ctx, u, site)
               /\ stack' = [stack EXCEPT ![u] = Append(@, Frame("apps", site, ctx[u]))]
               /\ status' = [status EXCEPT ![u] = "call"]
               /\ hist' = [hist EXCEPT ![u] = [called.hist EXCEPT !.sets = @ + 1]]
               /\ exc' = exc
          ELSE /\ req' = [req EXCEPT ![u].site = site]
               /\ status' = [status EXCEPT ![u] = "exc"]
               /\ exc' = [exc EXCEPT ![u] = "Http404"]
               /\ hist' = [hist EXCEPT ![u] = Invoke(@, Depth(u) + 1)]
               /\ UNCHANGED <<ctx, stack>>
    /\ UNCHANGED <<lang, secureRedirect, pipe, resp>>

ExitApps(u) ==
    /\ Leaving(u, "apps", "ret")
    /\ ScopeExit(u)
    /\ UNCHANGED <<lang, secureRedirect, pipe, req, status, resp, exc, hist>>

RaiseApps(u) ==
    /\ Leaving(u, "apps", "exc")
    /\ ScopeRaise(u)
    /\ UNCHANGED <<lang, secureRedirect, pipe, req, status, resp, exc, hist>>

----------------------------------------------------------------------------
\* redirect_to_site_middleware

\* hasattr(request, "site")
HasSite(r) == r.site # Absent

\* a pass-through test that lets every request through
PassThroughAlways(r, ssl) == TRUE

\* a pass-through test that compares the host only
PassThroughHostOnly(r, ssl) == r.host = SiteHost(r.site)

\* request.get_host() == request.site.host and
\* (not settings.SECURE_SSL_REDIRECT or request.is_secure())
PassThrough(r, ssl) == r.host = SiteHost(r.site) /\ (~ssl \/ r.secure)

\* a scheme that is always plain http
RedirectSchemeHttp(r, ssl) == "http"

\* a scheme that follows the setting only
RedirectSchemeSettingOnly(r, ssl) == IF ssl THEN "https" ELSE "http"

\* "http%s" % ("s" if (settings.SECURE_SSL_REDIRECT or request.is_secure()) else "")
RedirectScheme(r, ssl) == IF ssl \/ r.secure THEN "https" ELSE "http"

\* "http%s://%s%s" % (..., request.site, request.get_full_path())
RedirectLocation(r, ssl) == <<RedirectScheme(r, ssl), "://", SiteStr(r.site), r.path>>

HttpResponsePermanentRedirect(loc) ==
    [code |-> 301, location |-> loc, vary |-> <<>>, contentLanguage |-> Absent, body |-> "redirect"]

\* the missing attribute reported as a missing tenant
MissingSiteNotFound == "Http404"

\* raise ImproperlyConfigured('No "site" attribute on request. ...')
MissingSiteError == "ImproperlyConfigured"

\* the guard of a tenant-required middleware failed, or request.site is None
\* and reading an attribute of it fails
SiteAttributeError(u) ==
    /\ status' = [status EXCEPT ![u] = "exc"]
    /\ exc' = [exc EXCEPT ![u] = IF HasSite(req[u]) THEN "AttributeError"
                                 ELSE MissingSiteError]
    /\ hist' = [hist EXCEPT ![u] = Invoke(@, Depth(u) + 1)]

EnterRedirect(u) ==
    /\ Calling(u, "redirect")
    /\ IF ~HasSite(req[u]) \/ req[u].site = None
       THEN /\ SiteAttributeError(u)
            /\ UNCHANGED <<stack, resp>>
       ELSE IF PassThrough(req[u], secureRedirect)
       THEN /\ stack' = [stack EXCEPT ![u] = Append(@, Frame("redirect", None, None))]
            /\ status' = [status EXCEPT ![u] = "call"]
            /\ hist' = [hist EXCEPT ![u] = Invoke(@, Depth(u) + 1)]
            /\ UNCHANGED <<resp, exc>>
       ELSE /\ resp' = [resp EXCEPT ![u] =
                          HttpResponsePermanentRedirect(RedirectLocation(req[u], secureRedirect))]
            /\ status' = [status EXCEPT ![u] = "ret"]
            /\ hist' = [hist EXCEPT ![u] = Invoke(@, Depth(u) + 1)]
            /\ UNCHANGED <<stack, exc>>
    /\ UNCHANGED <<ctx, lang, secureRedirect, pipe, req>>

\* `return get_response(request)`: the response or the exception of the next
\* stage leaves the middleware as it is
ExitRedirect(u) ==
    /\ \/ Leaving(u, "redirect", "ret")
       \/ Leaving(u, "redirect", "exc")
    /\ stack' = [stack EXCEPT ![u] = Pop(@)]
    /\ UNCHANGED <<ctx, lang, secureRedirect, pipe, req, status, resp, exc, hist>>

----------------------------------------------------------------------------
\* default_language_middleware

\* a selection that always negotiates
SelectLanguageNegotiated(r) == r.negotiated

\* request.site.default_language if set, else
\* translation.get_language_from_request(request)
SelectLanguage(r) ==
    IF SiteDefaultLanguage(r.site) # ""
    THEN SiteDefaultLanguage(r.site)
    ELSE r.negotiated

\* header.lower()
Lower(h) ==
    CASE h = "Accept-Language" -> "accept-language"
      [] h = "Cookie" -> "cookie"
      [] OTHER -> h

\* the header is among the values of Vary, whatever its case
Has(v, h) == \E i \in 1 .. Len(v) : Lower(v[i]) = Lower(h)

\* a patch that appends the header without looking at the values present
patch_vary_headers_append(r, h) == [r EXCEPT !.vary = Append(@, h)]

\* patch_vary_headers(response, (h,))
patch_vary_headers(r, h) == IF Has(r.vary, h) THEN r ELSE [r EXCEPT !.vary = Append(@, h)]

\* a Content-Language that overwrites the header of the next stage
SetContentLanguage(r, l) == [r EXCEPT !.contentLanguage = l]

\* response.setdefault("Content-Language", l)
SetDefaultContentLanguage(r, l) ==
    IF r.contentLanguage = Absent THEN [r EXCEPT !.contentLanguage = l] ELSE r

EnterLang(u) ==
    /\ Calling(u, "lang")
    /\ IF ~HasSite(req[u]) \/ req[u].site = None
       THEN /\ SiteAttributeError(u)
            /\ UNCHANGED <<lang, req, stack>>
       ELSE LET language == SelectLanguage(req[u]) IN
            /\ lang' = [lang EXCEPT ![u] = language]
            /\ req' = [req EXCEPT ![u].LANGUAGE_CODE = lang'[u]]
            /\ stack' = [stack EXCEPT ![u] = Append(@, Frame("lang", None, None))]
            /\ status' = [status EXCEPT ![u] = "call"]
            /\ hist' = [hist EXCEPT ![u] = Invoke(@, Depth(u) + 1)]
            /\ exc' = exc
    /\ UNCHANGED <<ctx, secureRedirect, pipe, resp>>

ExitLang(u) ==
    /\ Leaving(u, "lang", "ret")
    /\ resp' = [resp EXCEPT ![u] =
                  SetDefaultContentLanguage(patch_vary_headers(@, "Accept-Language"), lang[u])]
    /\ stack' = [stack EXCEPT ![u] = Pop(@)]
    /\ UNCHANGED <<ctx, lang, secureRedirect, pipe, req, status, exc, hist>>

\* get_response raised: the lines after it do not run
RaiseLang(u) ==
    /\ Leaving(u, "lang", "exc")
    /\ stack' = [stack EXCEPT ![u] = Pop(@)]
    /\ UNCHANGED <<ctx, lang, secureRedirect, pipe, req, status, resp, exc, hist>>

----------------------------------------------------------------------------
\* The inner handler (get_response of the innermost middleware)

HandlerInvoke(u) ==
    /\ status[u] = "call"
    /\ Depth(u) = Len(pipe[u])
    /\ status' = [status EXCEPT ![u] = "handler"]
    /\ hist' = [hist EXCEPT ![u] = [Invoke(@, Depth(u) + 1) EXCEPT
                                      !.seen = current_site(ctx, u)]]
    /\ UNCHANGED <<ctx, lang, secureRedirect, pipe, req, stack, resp, exc>>

\* the handler activates a language of its own
HandlerActivate(u) ==
    /\ status[u] = "handler"
    /\ ~hist[u].activated
    /\ \E l \in Langs :
        /\ lang' = [lang EXCEPT ![u] = l]
        /\ hist' = [hist EXCEPT ![u].activated = TRUE, ![u].handlerLang = l]
    /\ UNCHANGED <<ctx, secureRedirect, pipe, req, stack, status, resp, exc>>

HandlerReturn(u) ==
    /\ status[u] = "handler"
    /\ \E r \in HandlerResponses :
        /\ resp' = [resp EXCEPT ![u] = r]
        /\ hist' = [hist EXCEPT ![u].handlerResp = r]
    /\ status' = [status EXCEPT ![u] = "ret"]
    /\ UNCHANGED <<ctx, lang, secureRedirect, pipe, req, stack, exc>>

HandlerRaise(u) ==
    /\ status[u] = "handler"
    /\ status' = [status EXCEPT ![u] = "exc"]
    /\ exc' = [exc EXCEPT ![u] = "Error"]
    /\ UNCHANGED <<ctx, lang, secureRedirect, pipe, req, stack, resp, hist>>

----------------------------------------------------------------------------
\* One execution unit serving requests one after another

Next ==
    \/ StartRequest(MainUnit)
    \/ FollowRedirect(MainUnit)
    \/ Deliver(MainUnit)
    \/ EnterScope(MainUnit)
    \/ ExitScope(MainUnit)
    \/ RaiseScope(MainUnit)
    \/ EnterSite(MainUnit)
    \/ ExitSite(MainUnit)
    \/ RaiseSite(MainUnit)
    \/ EnterApps(MainUnit)
    \/ ExitApps(MainUnit)
    \/ RaiseApps(MainUnit)
    \/ EnterRedirect(MainUnit)
    \/ ExitRedirect(MainUnit)
    \/ EnterLang(MainUnit)
    \/ ExitLang(MainUnit)
    \/ RaiseLang(MainUnit)
    \/ HandlerInvoke(MainUnit)
    \/ HandlerActivate(MainUnit)
    \/ HandlerReturn(MainUnit)
    \/ HandlerRaise(MainUnit)

Spec == Init /\ [][Next]_vars

----------------------------------------------------------------------------
\* Several execution units serving requests through site_middleware at the
\* same time; their steps interleave in every order

ConcStart(u) ==
    \E h \in Hosts : Start(u, <<"site">>, h, FALSE, "/", "en")

ConcReturn(u) ==
    /\ status[u] = "handler"
    /\ resp' = [resp EXCEPT ![u] = PlainResponse]
    /\ hist' = [hist EXCEPT ![u].handlerResp = PlainResponse]
    /\ status' = [status EXCEPT ![u] = "ret"]
    /\ UNCHANGED <<ctx, lang, secureRedirect, pipe, req, stack, exc>>

ConcNext ==
    \E u \in Units :
        \/ ConcStart(u)
        \/ Deliver(u)
        \/ EnterSite(u)
        \/ ExitSite(u)
        \/ RaiseSite(u)
        \/ HandlerInvoke(u)
        \/ ConcReturn(u)
        \/ HandlerRaise(u)

ConcSpec == Init /\ [][ConcNext]_vars

----------------------------------------------------------------------------
\* site_middleware on one unit and apps_middleware on another, each serving
\* requests around the same kind of handler

EqStart(u) ==
    \E h \in Hosts :
        Start(u, IF u = MainUnit THEN <<"site">> ELSE <<"apps">>, h, FALSE, "/", "en")

EqNext ==
    \E u \in {MainUnit, OtherUnit} :
        \/ EqStart(u)
        \/ Deliver(u)
        \/ EnterSite(u)
        \/ ExitSite(u)
        \/ RaiseSite(u)
        \/ EnterApps(u)
        \/ ExitApps(u)
        \/ RaiseApps(u)
        \/ HandlerInvoke(u)
        \/ ConcReturn(u)
        \/ HandlerRaise(u)

EqSpec == Init /\ [][EqNext]_vars

----------------------------------------------------------------------------
\* Properties

\* the next stage of the middleware mw of unit u is running: mw has called
\* get_response and the call has neither returned nor raised yet
Downstream(u, mw) ==
    \E i \in 1 .. Depth(u) :
        /\ stack[u][i].mw = mw
        /\ i < Depth(u) \/ status[u] \in {"call", "handler"}

\* the value set by the innermost scope that unit u is inside of, or the
\* value the context had when the request started
Enclosing(u) ==
    LET S == { i \in 1 .. Depth(u) : stack[u][i].mw \in {"site", "scope", "apps"} } IN
    IF S = {} THEN hist[u].ctx0
    ELSE stack[u][CHOOSE i \in S : \A j \in S : j <= i].site

\* C1: while the next stage of site_middleware runs for a request whose host
\* matches the tenant S (and that stage sets no site of its own), request.site
\* is S and current_site() in the request's unit returns S.
Thm_C1 ==
    \A u \in Units :
        (Downstream(u, "site") /\ hist[u].sets = 1)
            => /\ for_host(req[u].host) \in Sites
               /\ req[u].site = for_host(req[u].host)
               /\ current_site(ctx, u) = for_host(req[u].host)

Wit_C1 ==
    /\ pipe[MainUnit] = <<"site", "redirect", "lang">>
    /\ status[MainUnit] = "handler"
    /\ req[MainUnit].host = "a.example.com"
    /\ req[MainUnit].site = "A"
    /\ hist[MainUnit].seen = "A"
    /\ hist[MainUnit].ctx0 = "B"

\* C2: when the processing wrapped by a set_current_site scope raises, the
\* context holds the value it had before the scope was entered once the
\* failure has left the scope: a request that entered a scope and ended with
\* an exception leaves the context as it found it.
CE_C2 ==
    \A u \in Units :
        (Finished(u) /\ status[u] = "exc" /\ hist[u].sets > 0)
            => ctx[u] = hist[u].ctx0

\* C3: with several units serving requests for different tenants at the same
\* time, current_site() in a unit whose next stage is running returns the
\* site resolved for that unit's own request, whatever the other units do.
Thm_C3 ==
    \A u \in Units :
        Downstream(u, "site")
            => /\ current_site(ctx, u) = for_host(req[u].host)
               /\ status[u] = "handler" => hist[u].seen = for_host(req[u].host)

Wit_C3 ==
    /\ status[1] = "handler"
    /\ status[2] = "handler"
    /\ hist[1].seen = "A"
    /\ hist[2].seen = "B"
    /\ ctx[1] = "A"
    /\ ctx[2] = "B"

\* C4: a request served through site_middleware by a unit whose context was
\* empty when the request started leaves the context empty when it has
\* finished, whether it completed, failed with Http404 or its next stage
\* raised; so current_site() is None between the requests of a unit.
CE_C4 ==
    \A u \in Units :
        (/\ Finished(u)
         /\ pipe[u] \in { <<"site">>, <<"site", "redirect">>, <<"site", "lang">>,
                          <<"site", "redirect", "lang">> }
         /\ hist[u].ctx0 = MISSING)
            => current_site(ctx, u) = None

\* C5: as long as nothing has raised, the context holds the value set by the
\* innermost scope the unit is inside of, and the value from before the
\* outermost scope once all scopes have returned: each normal scope exit
\* restores the value from before that scope, also for nested scopes.
Thm_C5 ==
    \A u \in Units :
        status[u] \in {"call", "handler", "ret"} => ctx[u] = Enclosing(u)

Wit_C5 ==
    /\ pipe[MainUnit] = <<"scope", "scope">>
    /\ status[MainUnit] = "ret"
    /\ Depth(MainUnit) = 1
    /\ stack[MainUnit][1].site = "A"
    /\ hist[MainUnit].seen = "B"
    /\ hist[MainUnit].ctx0 = "B"
    /\ ctx[MainUnit] = "A"

\* C6: a request through site_middleware whose host matches no tenant fails
\* with Http404; no scope is entered, the context keeps its value and no
\* later stage is invoked.
Thm_C6 ==
    \A u \in Units :
        (/\ pipe[u] # <<>>
         /\ pipe[u][1] = "site"
         /\ for_host(req[u].host) = None)
            => /\ hist[u].sets = 0
               /\ ctx[u] = hist[u].ctx0
               /\ \A i \in 2 .. Len(hist[u].invoked) : hist[u].invoked[i] = 0
               /\ hist[u].invoked[1] = 1
                    => /\ status[u] = "exc"
                       /\ exc[u] = "Http404"
                       /\ stack[u] = <<>>
                       /\ resp[u] = NoResp

Wit_C6 ==
    /\ Finished(MainUnit)
    /\ pipe[MainUnit] = <<"site", "redirect", "lang">>
    /\ req[MainUnit].host = "x.example.com"
    /\ exc[MainUnit] = "Http404"
    /\ hist[MainUnit].ctx0 = "A"
    /\ ctx[MainUnit] = "A"

\* the positions of middleware mw in the chain of unit u that have been called
\* for a request carrying the resolved site (or, with sited = FALSE, no site)
Ran(u, mw, sited) ==
    { i \in 1 .. Len(pipe[u]) :
        /\ pipe[u][i] = mw
        /\ hist[u].invoked[i] = 1
        /\ (req[u].site \in Sites) = sited
        /\ sited \/ req[u].site = Absent }

C7Inv ==
    \A u \in Units : \A i \in Ran(u, "redirect", TRUE) :
        IF /\ req[u].host = SiteHost(req[u].site)
           /\ ~secureRedirect \/ req[u].secure
        THEN /\ hist[u].invoked[i + 1] <= 1
             /\ Depth(u) < i => hist[u].invoked[i + 1] = 1
        ELSE /\ hist[u].invoked[i + 1] = 0
             /\ Depth(u) < i
             /\ status[u] = "ret"
             /\ resp[u].code = 301

C7Act ==
    \A u \in Units :
        (/\ status[u] = "ret"
         /\ stack[u] # <<>>
         /\ Top(u).mw = "redirect"
         /\ stack'[u] = Pop(stack[u]))
            => /\ resp'[u] = resp[u]
               /\ status'[u] = "ret"

\* C7: for a request carrying a resolved site, redirect_to_site_middleware
\* calls the next stage, once, and returns its response as it is exactly when
\* the host is the site's host and either SECURE_SSL_REDIRECT is off or the
\* request is secure; otherwise it returns a 301 and never calls the next stage.
Thm_C7 == [] C7Inv /\ [][C7Act]_vars

Wit_C7 ==
    /\ Finished(MainUnit)
    /\ pipe[MainUnit] = <<"site", "redirect">>
    /\ secureRedirect
    /\ req[MainUnit].secure
    /\ req[MainUnit].host = "b.example.com"
    /\ hist[MainUnit].invoked = <<1, 1, 1>>
    /\ resp[MainUnit].code = 200
    /\ resp[MainUnit] = hist[MainUnit].handlerResp

\* C8: a redirect goes to scheme://<host of the site><path and query of the
\* request>, with https when SECURE_SSL_REDIRECT is on or the request was
\* secure and http otherwise.
Thm_C8 ==
    \A u \in Units :
        resp[u].code = 301
            => /\ req[u].site \in Sites
               /\ resp[u].location =
                    << IF secureRedirect \/ req[u].secure THEN "https" ELSE "http",
                       "://", SiteHost(req[u].site), req[u].path >>

Wit_C8 ==
    /\ resp[MainUnit].code = 301
    /\ ~secureRedirect
    /\ req[MainUnit].secure
    /\ req[MainUnit].host = "alt.example.com"
    /\ resp[MainUnit].location = <<"https", "://", "a.example.com", "/p?q=1">>

\* C9: redirect_to_site_middleware and default_language_middleware called for
\* a request without a site attribute raise ImproperlyConfigured and do nothing
\* else: no next stage is called, no response is made, no language activated.
Thm_C9 ==
    \A u \in Units :
        (Ran(u, "redirect", FALSE) \cup Ran(u, "lang", FALSE) # {})
            => /\ status[u] = "exc"
               /\ exc[u] = "ImproperlyConfigured"
               /\ stack[u] = <<>>
               /\ hist[u].invoked[2] = 0
               /\ resp[u] = NoResp
               /\ lang[u] = hist[u].lang0
               /\ req[u].LANGUAGE_CODE = Absent

Wit_C9 ==
    /\ Finished(MainUnit)
    /\ pipe[MainUnit] = <<"lang">>
    /\ exc[MainUnit] = "ImproperlyConfigured"
    /\ hist[MainUnit].lang0 = "de"
    /\ lang[MainUnit] = "de"

\* C10: while the next stage of default_language_middleware runs (and has not
\* activated a language itself), the active language and request.LANGUAGE_CODE
\* are the site's default_language if it has one, else the negotiated language.
Thm_C10 ==
    \A u \in Units :
        (Downstream(u, "lang") /\ ~hist[u].activated /\ req[u].site \in Sites)
            => LET dl == SiteDefaultLanguage(req[u].site)
                   sel == IF dl # "" THEN dl ELSE req[u].negotiated
               IN /\ lang[u] = sel
                  /\ req[u].LANGUAGE_CODE = sel

Wit_C10 ==
    /\ status[MainUnit] = "handler"
    /\ pipe[MainUnit] = <<"site", "redirect", "lang">>
    /\ req[MainUnit].site = "A"
    /\ req[MainUnit].negotiated = "fr"
    /\ hist[MainUnit].lang0 = "fr"
    /\ lang[MainUnit] = "de"
    /\ req[MainUnit].LANGUAGE_CODE = "de"

\* the positions of default_language_middleware in the chain of unit u that
\* have returned a response for a request carrying a site
LangDone(u) ==
    { i \in Ran(u, "lang", TRUE) : Depth(u) < i /\ status[u] = "ret" }

\* C11 as stated: a response that the next stage returned without
\* Content-Language leaves default_language_middleware with the language the
\* middleware activated, whatever the next stage did.
CE_C11 ==
    \A u \in Units :
        (LangDone(u) # {} /\ hist[u].handlerResp.contentLanguage = Absent)
            => LET dl == SiteDefaultLanguage(req[u].site) IN
               resp[u].contentLanguage = IF dl # "" THEN dl ELSE req[u].negotiated

\* C11 amended: a Content-Language set by the next stage is left as it is;
\* without one the response gets the language active when the next stage
\* returned: the one the next stage activated if it activated one, else the
\* one the middleware activated.
Thm_C11 ==
    \A u \in Units :
        LangDone(u) # {}
            => LET dl == SiteDefaultLanguage(req[u].site)
                   h == hist[u]
               IN resp[u].contentLanguage =
                    IF h.handlerResp.contentLanguage # Absent THEN h.handlerResp.contentLanguage
                    ELSE IF h.handlerLang # Absent THEN h.handlerLang
                    ELSE IF dl # "" THEN dl
                    ELSE req[u].negotiated

Wit_C11 ==
    /\ Finished(MainUnit)
    /\ LangDone(MainUnit) # {}
    /\ req[MainUnit].site = "A"
    /\ hist[MainUnit].handlerLang = "fr"
    /\ hist[MainUnit].handlerResp.contentLanguage = Absent
    /\ resp[MainUnit].contentLanguage = "fr"

\* C12: once default_language_middleware has returned or its next stage has
\* raised (and the next stage activated nothing itself), the active language of
\* the unit is the one from before the middleware ran.
CE_C12 ==
    \A u \in Units : \A i \in Ran(u, "lang", TRUE) :
        (Depth(u) < i /\ ~hist[u].activated) => lang[u] = hist[u].lang0

\* the values of a Vary header that name Accept-Language, and the others
IsAL(h) == h \in {"Accept-Language", "accept-language"}
NotAL(h) == ~IsAL(h)

AppsRan(u) == pipe[u] # <<>> /\ pipe[u][1] = "apps" /\ hist[u].invoked[1] = 1

\* C14 as stated: every request handled by apps_middleware emits exactly one
\* warning.
CE_C14 ==
    \A u \in Units : AppsRan(u) => hist[u].warnings = 1

\* C14 amended: a request handled by apps_middleware emits one warning, by its
\* one call of apps_urlconf_for_site, when its host matches a tenant, and none
\* when it fails with Http404; no other middleware emits one.
Thm_C14 ==
    \A u \in Units :
        /\ AppsRan(u)
            => /\ hist[u].warnings = IF for_host(req[u].host) \in Sites THEN 1 ELSE 0
               /\ (req[u].urlconf # Absent) = (hist[u].warnings = 1)
        /\ ~AppsRan(u) => hist[u].warnings = 0 /\ req[u].urlconf = Absent

Wit_C14 ==
    /\ Finished(MainUnit)
    /\ AppsRan(MainUnit)
    /\ hist[MainUnit].ctx0 = "B"
    /\ req[MainUnit].urlconf = "urlconf_A"
    /\ hist[MainUnit].warnings = 1

\* C15: a request served by apps_middleware and the same request served by
\* site_middleware, started with the same context and at the same point of
\* their processing, agree on request.site, on the exception or response, on
\* the context, on what the handler saw and on which stages were called;
\* only request.urlconf differs, set before the handler is called.
Thm_C15 ==
    LET s == MainUnit
        a == OtherUnit
    IN (/\ pipe[s] = <<"site">>
        /\ pipe[a] = <<"apps">>
        /\ req[s].host = req[a].host
        /\ hist[s].ctx0 = hist[a].ctx0
        /\ status[s] = status[a]
        /\ Depth(s) = Depth(a))
        => /\ req[s].site = req[a].site
           /\ exc[s] = exc[a]
           /\ resp[s] = resp[a]
           /\ ctx[s] = ctx[a]
           /\ hist[s].seen = hist[a].seen
           /\ hist[s].sets = hist[a].sets
           /\ hist[s].invoked = hist[a].invoked
           /\ \A i \in 1 .. Depth(s) :
                /\ stack[s][i].site = stack[a][i].site
                /\ stack[s][i].token = stack[a][i].token
           /\ req[s].urlconf = Absent
           /\ hist[a].invoked[2] = 1 => req[a].urlconf # Absent

Wit_C15 ==
    /\ pipe[MainUnit] = <<"site">>
    /\ pipe[OtherUnit] = <<"apps">>
    /\ status[MainUnit] = "handler"
    /\ status[OtherUnit] = "handler"
    /\ hist[MainUnit].ctx0 = "B"
    /\ hist[OtherUnit].ctx0 = "B"
    /\ hist[MainUnit].seen = "A"
    /\ hist[OtherUnit].seen = "A"
    /\ req[OtherUnit].urlconf = "urlconf_A"

\* C16: the request a client sends when it follows a redirect of
\* redirect_to_site_middleware is not redirected again: it passes the
\* redirector and reaches the handler, whatever SECURE_SSL_REDIRECT and the
\* scheme of the first request were.
Thm_C16 ==
    \A u \in Units :
        hist[u].followed
            => /\ resp[u].code # 301
               /\ \A i \in Ran(u, "redirect", TRUE) :
                    /\ req[u].host = SiteHost(req[u].site)
                    /\ Depth(u) < i => hist[u].invoked[i + 1] = 1
               /\ Finished(u) => hist[u].invoked[Len(pipe[u]) + 1] = 1

Wit_C16 ==
    /\ Finished(MainUnit)
    /\ hist[MainUnit].followed
    /\ pipe[MainUnit] = <<"site", "redirect", "lang">>
    /\ secureRedirect
    /\ req[MainUnit].secure
    /\ req[MainUnit].host = "a.example.com"
    /\ req[MainUnit].path = "/p?q=1"
    /\ resp[MainUnit].code = 200

\* C17: in the chain site_middleware, redirect_to_site_middleware,
\* default_language_middleware, handler, the handler is called at most once per
\* request and only when the host resolved to a tenant and the request passed
\* the redirector; when it is called request.site is that tenant and is what
\* current_site() returns.
Thm_C17 ==
    \A u \in Units :
        pipe[u] = <<"site", "redirect", "lang">>
            => /\ hist[u].invoked[4] <= 1
               /\ hist[u].invoked[4] = 1
                    => /\ for_host(req[u].host) \in Sites
                       /\ req[u].site = for_host(req[u].host)
                       /\ req[u].host = SiteHost(req[u].site)
                       /\ ~secureRedirect \/ req[u].secure
                       /\ hist[u].seen = req[u].site
                       /\ hist[u].invoked = <<1, 1, 1, 1>>

Wit_C17 ==
    /\ pipe[MainUnit] = <<"site", "redirect", "lang">>
    /\ status[MainUnit] = "handler"
    /\ hist[MainUnit].invoked[4] = 1
    /\ hist[MainUnit].ctx0 = "A"
    /\ req[MainUnit].site = "B"
    /\ hist[MainUnit].seen = "B"

====
